---------------------------- MODULE Spec2Model ----------------------------
(***************************************************************************)
(* Model of cmd/audio-probe-ffmpeg/main.go: the main goroutine (main and   *)
(* processFiles), one worker goroutine per collected file, and the         *)
(* progress goroutine.  Go slices are 0-based; the sequences here are      *)
(* 1-based, so files[i] of the source is files[i+1] here.                  *)
(***************************************************************************)
EXTENDS Integers, Sequences, FiniteSets, TLC

\* ------------------------------------------------------------------ bounds
MaxFiles == 2   \* longest file list collectAudioFiles hands to processFiles
MaxJ     == 2   \* largest in-range value of the -j flag that is tried
NumCPU   == 1   \* runtime.NumCPU() of the machine the run is on
MaxResults == 4 \* longest result sequence handed to outputResults on its own

\* --------------------------------------------------------------- constants
CPUFactor == 12 \* cpuLimit := runtime.NumCPU() * 12

Nil == "nil"          \* a nil error, an unset path
NilInfo == [nil |-> TRUE] \* a nil *AudioInfo

\* The file system and ffprobe as the probe sees them: one path that probes
\* well, one whose probe fails (ffprobe reports no audio stream in it), and
\* one on which the ffprobe child process never exits.  The other error
\* returns of analyzeFileWithFFProbe (lines 299, 312, 318) differ from the
\* modelled one in the error text only.
Paths == {"song.mp3", "clip.mkv", "hang.wav"}

World ==
  [p \in Paths |->
     CASE p = "song.mp3" -> [audio |-> TRUE,  hang |-> FALSE,
                             size |-> 2048, duration |-> 90]
       [] p = "clip.mkv" -> [audio |-> FALSE, hang |-> FALSE,
                             size |-> 4096, duration |-> 30]
       [] OTHER          -> [audio |-> TRUE,  hang |-> TRUE,
                             size |-> 512,  duration |-> 5]]

VARIABLES
  pc,             \* position of the main goroutine
  caller,         \* who called processFiles: main, or a direct caller
  ffprobe,        \* what checkFFProbe answered, once main has asked
  concurrency,    \* the -j flag
  quiet,          \* the -q flag
  files,          \* audioFiles / files
  maxConcurrency, \* processFiles' parameter, after the adjustment
  warned,         \* the warning of line 213 was logged
  results,        \* the results slice
  semaphore,      \* number of elements in the semaphore channel
  processed,      \* the atomic counter
  wg,             \* counter of wg
  progressWg,     \* counter of progressWg
  progressDone,   \* TRUE once the channel is closed
  loopI,          \* next index of the dispatch loop
  wpc,            \* position of each worker goroutine
  wIndex,         \* each worker's index argument
  wPath,          \* each worker's filePath argument
  writeLog,       \* history: the assignments to results, in order
  tpc,            \* position of the progress goroutine
  progressLine,   \* the last "\r" line the progress goroutine printed
  finalRenders,   \* number of times the 100% line was printed
  summaryLog,     \* the counts logged at the end of processFiles
  output          \* what outputResults wrote

vars == <<pc, caller, ffprobe, concurrency, quiet, files, maxConcurrency, warned,
          results, semaphore, processed, wg, progressWg, progressDone, loopI,
          wpc, wIndex, wPath, writeLog, tpc, progressLine,
          finalRenders, summaryLog, output>>

mainVars    == <<pc, ffprobe, files, maxConcurrency, warned, loopI, summaryLog,
                 output>>
flagVars    == <<caller, concurrency, quiet>>
workerVars  == <<wpc, wIndex, wPath>>
ghostVars   == <<writeLog>>
trackerVars == <<tpc, progressLine, finalRenders>>

Workers == 1..MaxFiles

\* ------------------------------------------------------------- pure parts
ZeroResult == [Info |-> NilInfo, Error |-> Nil]

\* analyzeFileWithFFProbe, for a path whose ffprobe run returns.
analyzeFileWithFFProbe(filePath) ==
  IF ~World[filePath].audio
    THEN [Info |-> NilInfo, Error |-> "no audio stream"]
  ELSE [Info  |-> [FilePath        |-> filePath,
                   FileSize        |-> World[filePath].size,
                   DurationSeconds |-> World[filePath].duration],
        Error |-> Nil]

cpuLimit == NumCPU * CPUFactor

\* The values of -j that are tried: a negative one, the in-range ones, and
\* the two around the ceiling.
Concurrencies == {-1} \cup (0..MaxJ) \cup {cpuLimit, cpuLimit + 1}

FileLists == UNION {[1..n -> Paths] : n \in 0..MaxFiles}

IsOK(r)    == r.Error = Nil
IsValid(r) == r.Error = Nil /\ r.Info # NilInfo

\* processFiles, lines 277-284: successCount; failCount is the rest.
RECURSIVE successCount(_)
successCount(rs) ==
  IF rs = <<>> THEN 0
  ELSE (IF IsOK(Head(rs)) THEN 1 ELSE 0) + successCount(Tail(rs))

\* outputText, lines 432-440: its own successCount, over the valid results.
RECURSIVE validCount(_)
validCount(rs) ==
  IF rs = <<>> THEN 0
  ELSE (IF IsValid(Head(rs)) THEN 1 ELSE 0) + validCount(Tail(rs))

\* outputJSON, lines 414-419: validResults, in the order of results.
RECURSIVE validResults(_)
validResults(rs) ==
  IF rs = <<>> THEN <<>>
  ELSE (IF IsValid(Head(rs)) THEN <<Head(rs).Info>> ELSE <<>>)
         \o validResults(Tail(rs))

\* outputJSON: the encoded array holds the Info of the valid results only.
outputJSON(rs) ==
  [format |-> "json", records |-> validResults(rs)]

\* Variant: the loop stops at the first failed result.
RECURSIVE totalDuration_untilFailure(_)
totalDuration_untilFailure(rs) ==
  IF rs = <<>> \/ ~IsValid(Head(rs)) THEN 0
  ELSE Head(rs).Info.DurationSeconds + totalDuration_untilFailure(Tail(rs))

\* outputText, lines 434-440: the sums run over the valid results.
RECURSIVE totalDuration(_)
totalDuration(rs) ==
  IF rs = <<>> THEN 0
  ELSE (IF IsValid(Head(rs)) THEN Head(rs).Info.DurationSeconds ELSE 0)
         + totalDuration(Tail(rs))

RECURSIVE totalSize(_)
totalSize(rs) ==
  IF rs = <<>> THEN 0
  ELSE (IF IsValid(Head(rs)) THEN Head(rs).Info.FileSize ELSE 0)
         + totalSize(Tail(rs))

\* Variant: the error line carries no description.
TextEntry_noDescription(r) ==
  IF r.Error # Nil THEN [kind |-> "error", text |-> ""]
  ELSE IF r.Info = NilInfo THEN [kind |-> "panic", text |-> "nil pointer dereference"]
  ELSE [kind |-> "file", text |-> r.Info.FilePath]

\* outputText, lines 447-473: an error line for a failed result, else the
\* file's block (which dereferences Info).
TextEntry(r) ==
  IF r.Error # Nil THEN [kind |-> "error", text |-> r.Error]
  ELSE IF r.Info = NilInfo THEN [kind |-> "panic", text |-> "nil pointer dereference"]
  ELSE [kind |-> "file", text |-> r.Info.FilePath]

\* outputText: the summary line, the totals and one entry per result.
outputText(rs) ==
  [format        |-> "text",
   success       |-> validCount(rs),
   failure       |-> Len(rs) - validCount(rs),
   totalDuration |-> totalDuration(rs),
   totalSize     |-> totalSize(rs),
   entries       |-> [i \in 1..Len(rs) |-> TextEntry(rs[i])]]

\* Variant: every goroutine is handed the index of the first item.
goArgs_firstIndex(i) == [index |-> 1, filePath |-> files[i]]

\* Variant: the index counts from the other end of the list.
goArgs_reversed(i) == [index |-> Len(files) + 1 - i, filePath |-> files[i]]

\* line 266, }(i, file): the arguments the go statement passes.
goArgs(i) == [index |-> i, filePath |-> files[i]]

\* Variant: the channel takes one element more than its capacity.
canSend_oneMore(n, capacity) == n <= capacity

\* Variant: a capacity of 0 is taken to mean no limit.
canSend_zeroUnlimited(n, capacity) == n < capacity \/ capacity = 0

\* Variant: the last place of the channel is never used.
canSend_oneLess(n, capacity) == n < capacity - 1

\* line 259: a send on the buffered channel goes through while it holds fewer
\* elements than its capacity (with capacity 0 it needs a receiver, and no
\* goroutine receives before it has sent).
canSend(n, capacity) == n < capacity

\* Variant: a failed probe returns early and leaves the slot as it was.
slotValue_dropError(old, r) == IF r.Error # Nil THEN old ELSE r

\* line 263: results[index] = Result{Info: info, Error: err}.
slotValue(old, r) == r

\* Variant: only a successful probe is counted.
addProcessed_onSuccess(p, r) == IF r.Error = Nil THEN p + 1 ELSE p

\* line 265: atomic.AddInt32(&processed, 1), after the outcome r was stored.
addProcessed(p, r) == p + 1

\* Variant: the element is left in the channel.
afterReceive_forgotten(n) == n

\* line 260: the deferred receive takes one element out of the channel.
afterReceive(n) == n - 1

\* Variant: Wait returns without waiting.
waitReturns_noWait(counter) == TRUE

\* lines 269 and 271: sync.WaitGroup.Wait returns when the counter is zero.
waitReturns(counter) == counter = 0

\* Variant: a break leaves the select only, and the loop goes on.
finalNext_loop == "select"

\* line 248: the return leaves the progress goroutine.
finalNext == "exited"

\* Variant: a missing ffprobe is reported and the run goes on.
afterCheck_goOn(found) == "collectAudioFiles"

\* main, lines 108-110: log.Fatal ends the program when ffprobe is missing.
afterCheck(found) == IF found THEN "collectAudioFiles" ELSE "fatal_ffprobe"

\* Variant: a request equal to the limit counts as exceeding it.
exceeds_orEqual(requested, limit) == requested >= limit

\* line 212: if maxConcurrency > cpuLimit.
exceeds(requested, limit) == requested > limit

\* Variant: the slice is never made empty.
makeResults_atLeastOne(n) ==
  [i \in 1..(IF n = 0 THEN 1 ELSE n) |-> ZeroResult]

\* line 223: results := make([]Result, len(files)).
makeResults(n) == [i \in 1..n |-> ZeroResult]

\* Variant: progressWg.Add(1) stands before the if.
progressAdd_always(q) == 1

\* lines 233-234: progressWg.Add(1) runs only when quiet is off.
progressAdd(q) == IF q THEN 0 ELSE 1

\* Variant: the loop takes the permit before it starts the goroutine.
dispatchReady_permitFirst(n, capacity) == n < capacity

\* lines 254-256: the loop body (wg.Add, go) does not touch the channel.
dispatchReady(n, capacity) == TRUE

\* Variant: the permit is given back before the counter is incremented.
nextStep_releaseFirst(step) ==
  CASE step = "acquire"   -> "probe"
    [] step = "probe"     -> "release"
    [] step = "release"   -> "increment"
    [] step = "increment" -> "wgDone"
    [] OTHER              -> "exited"

\* Variant: the counter is incremented before the probe is run.
nextStep_countFirst(step) ==
  CASE step = "acquire"   -> "increment"
    [] step = "increment" -> "probe"
    [] step = "probe"     -> "release"
    [] step = "release"   -> "wgDone"
    [] OTHER              -> "exited"

\* lines 257-265: the order of a worker's steps: the send (259), the probe
\* and the store (262-263), the increment (265), then on return the deferred
\* calls in reverse order of their defer: the receive (260), wg.Done (257).
nextStep(step) ==
  CASE step = "acquire"   -> "probe"
    [] step = "probe"     -> "increment"
    [] step = "increment" -> "release"
    [] step = "release"   -> "wgDone"
    [] OTHER              -> "exited"

\* Variant: the tick swaps the counter out and leaves 0 in it.
afterLoad_reset(p) == 0

\* line 243: atomic.LoadInt32 leaves the counter as it is.
afterLoad(p) == p

\* ------------------------------------------------------------------- Init
Init ==
  \* The program starts in main; a direct caller of processFiles hands it
  \* the empty list, the one list main never passes on.
  /\ \/ pc = "main" /\ caller = "main"
     \/ pc = "processFiles" /\ caller = "direct"
  /\ ffprobe = "unchecked"
  /\ concurrency \in Concurrencies
  /\ quiet \in BOOLEAN
  /\ files = <<>>
  /\ maxConcurrency = concurrency
  /\ warned = FALSE
  /\ results = <<>>
  /\ semaphore = 0
  /\ processed = 0
  /\ wg = 0
  /\ progressWg = 0
  /\ progressDone = FALSE
  /\ loopI = 1
  /\ wpc = [w \in Workers |-> "none"]
  /\ wIndex = [w \in Workers |-> 0]
  /\ wPath = [w \in Workers |-> Nil]
  /\ writeLog = <<>>
  /\ tpc = "none"
  /\ progressLine = [kind |-> "none"]
  /\ finalRenders = 0
  /\ summaryLog = [kind |-> "none"]
  /\ output = [format |-> "none"]

\* --------------------------------------------------------- main goroutine
\* main, lines 101-105: no arguments prints the usage and exits with 1.
ParseArgs ==
  /\ pc = "main"
  /\ \E noArgs \in BOOLEAN :
       pc' = IF noArgs THEN "exit_usage" ELSE "checkFFProbe"
  /\ UNCHANGED <<ffprobe, files, maxConcurrency, warned, loopI, summaryLog,
                 output>>
  /\ UNCHANGED <<flagVars, results, semaphore, processed, wg, progressWg,
                 progressDone, workerVars, ghostVars, trackerVars>>

\* main, lines 107-110, with checkFFProbe's answer drawn from the environment.
checkFFProbe ==
  /\ pc = "checkFFProbe"
  /\ \E found \in BOOLEAN :
       /\ ffprobe' = IF found THEN "found" ELSE "missing"
       /\ pc' = afterCheck(found)
  /\ UNCHANGED <<files, maxConcurrency, warned, loopI, summaryLog, output>>
  /\ UNCHANGED <<flagVars, results, semaphore, processed, wg, progressWg,
                 progressDone, workerVars, ghostVars, trackerVars>>

\* main, lines 112-121: the collection fails, finds nothing, or finds a list.
collectAudioFiles ==
  /\ pc = "collectAudioFiles"
  /\ \/ /\ pc' = "fatal_collect"
        /\ files' = files
     \/ \E fl \in FileLists :
          /\ files' = fl
          /\ pc' = IF Len(fl) = 0 THEN "exit_nofiles" ELSE "processFiles"
  /\ UNCHANGED <<ffprobe, maxConcurrency, warned, loopI, summaryLog, output>>
  /\ UNCHANGED <<flagVars, results, semaphore, processed, wg, progressWg,
                 progressDone, workerVars, ghostVars, trackerVars>>

\* processFiles, lines 209-231: the adjustment to the CPU limit, the results
\* slice, the semaphore channel (make panics on a negative size).
processFiles ==
  /\ pc = "processFiles"
  /\ LET over == exceeds(concurrency, cpuLimit)
         n    == IF over THEN cpuLimit ELSE concurrency
     IN /\ warned' = over
        /\ maxConcurrency' = n
        /\ pc' = IF n < 0 THEN "panic_makechan" ELSE "startProgress"
  /\ results' = makeResults(Len(files))
  /\ semaphore' = 0
  /\ processed' = 0
  /\ UNCHANGED <<ffprobe, files, loopI, summaryLog, output>>
  /\ UNCHANGED <<flagVars, wg, progressWg, progressDone, workerVars,
                 ghostVars, trackerVars>>

\* processFiles, lines 233-252: the progress goroutine is started unless -q.
startProgress ==
  /\ pc = "startProgress"
  /\ pc' = "dispatch"
  /\ progressWg' = progressWg + progressAdd(quiet)
  /\ tpc' = IF quiet THEN tpc ELSE "select"
  /\ UNCHANGED <<ffprobe, files, maxConcurrency, warned, loopI, summaryLog,
                 output>>
  /\ UNCHANGED <<flagVars, results, semaphore, processed, wg, progressDone,
                 workerVars, ghostVars, progressLine, finalRenders>>

\* processFiles, lines 254-267: one iteration of the loop (wg.Add and the go
\* statement), or the loop's end.
dispatch ==
  /\ pc = "dispatch"
  /\ IF loopI <= Len(files)
       THEN /\ dispatchReady(semaphore, maxConcurrency)
            /\ wg' = wg + 1
            /\ wpc' = [wpc EXCEPT ![loopI] = "acquire"]
            /\ wIndex' = [wIndex EXCEPT ![loopI] = goArgs(loopI).index]
            /\ wPath' = [wPath EXCEPT ![loopI] = goArgs(loopI).filePath]
            /\ loopI' = loopI + 1
            /\ pc' = pc
       ELSE /\ pc' = "wgWait"
            /\ UNCHANGED <<wg, wpc, wIndex, wPath, loopI>>
  /\ UNCHANGED <<ffprobe, files, maxConcurrency, warned, summaryLog, output>>
  /\ UNCHANGED <<flagVars, results, semaphore, processed, progressWg,
                 progressDone, ghostVars, trackerVars>>

\* processFiles, line 269: wg.Wait() returns when the counter is zero.
wgWait ==
  /\ pc = "wgWait"
  /\ waitReturns(wg)
  /\ pc' = "closeProgressDone"
  /\ UNCHANGED <<ffprobe, files, maxConcurrency, warned, loopI, summaryLog,
                 output>>
  /\ UNCHANGED <<flagVars, results, semaphore, processed, wg, progressWg,
                 progressDone, workerVars, ghostVars, trackerVars>>

\* processFiles, line 270: close(progressDone).
closeProgressDone ==
  /\ pc = "closeProgressDone"
  /\ progressDone' = TRUE
  /\ pc' = "progressWgWait"
  /\ UNCHANGED <<ffprobe, files, maxConcurrency, warned, loopI, summaryLog,
                 output>>
  /\ UNCHANGED <<flagVars, results, semaphore, processed, wg, progressWg,
                 workerVars, ghostVars, trackerVars>>

\* processFiles, line 271: progressWg.Wait().
progressWgWait ==
  /\ pc = "progressWgWait"
  /\ waitReturns(progressWg)
  /\ pc' = "countResults"
  /\ UNCHANGED <<ffprobe, files, maxConcurrency, warned, loopI, summaryLog,
                 output>>
  /\ UNCHANGED <<flagVars, results, semaphore, processed, wg, progressWg,
                 progressDone, workerVars, ghostVars, trackerVars>>

\* processFiles, lines 273-290: the success/failure counts are logged (the
\* "Failed" line only when there is a failure) and results is returned.
countResults ==
  /\ pc = "countResults"
  /\ LET failCount == Len(results) - successCount(results)
     IN summaryLog' = [kind         |-> "counts",
                       successCount |-> successCount(results),
                       failCount    |-> failCount,
                       failedLogged |-> failCount > 0]
  /\ pc' = IF caller = "main" THEN "outputResults" ELSE "returned"
  /\ UNCHANGED <<ffprobe, files, maxConcurrency, warned, loopI, output>>
  /\ UNCHANGED <<flagVars, results, semaphore, processed, wg, progressWg,
                 progressDone, workerVars, ghostVars, trackerVars>>

\* main, lines 126-129, and outputResults: the sink is standard output or a
\* file that os.Create may fail to create; "json" selects outputJSON, any
\* other format outputText.
Formats == {"text", "json", "yaml"}

outputResults ==
  /\ pc = "outputResults"
  /\ \E format \in Formats, created \in BOOLEAN :
       IF ~created
         THEN /\ pc' = "fatal_output"
              /\ output' = output
         ELSE /\ pc' = "done"
              /\ output' = IF format = "json" THEN outputJSON(results)
                                              ELSE outputText(results)
  /\ UNCHANGED <<ffprobe, files, maxConcurrency, warned, loopI, summaryLog>>
  /\ UNCHANGED <<flagVars, results, semaphore, processed, wg, progressWg,
                 progressDone, workerVars, ghostVars, trackerVars>>

\* ------------------------------------------------------ worker goroutines
\* line 259: semaphore <- struct{}{}.
acquire(w) ==
  /\ wpc[w] = "acquire"
  /\ canSend(semaphore, maxConcurrency)
  /\ semaphore' = semaphore + 1
  /\ wpc' = [wpc EXCEPT ![w] = nextStep("acquire")]
  /\ UNCHANGED <<mainVars, flagVars, results, processed, wg, progressWg,
                 progressDone, wIndex, wPath, ghostVars, trackerVars>>

\* lines 262-263: the probe returns (never, on a path where ffprobe hangs)
\* and its outcome is assigned to results[index].
probe(w) ==
  /\ wpc[w] = "probe"
  /\ ~World[wPath[w]].hang
  /\ results' = [results EXCEPT ![wIndex[w]] =
                    slotValue(@, analyzeFileWithFFProbe(wPath[w]))]
  /\ writeLog' = Append(writeLog, [worker |-> w, slot |-> wIndex[w]])
  /\ wpc' = [wpc EXCEPT ![w] = nextStep("probe")]
  /\ UNCHANGED <<mainVars, flagVars, semaphore, processed, wg, progressWg,
                 progressDone, wIndex, wPath, trackerVars>>

\* line 265: atomic.AddInt32(&processed, 1).
increment(w) ==
  /\ wpc[w] = "increment"
  /\ processed' = addProcessed(processed, results[wIndex[w]])
  /\ wpc' = [wpc EXCEPT ![w] = nextStep("increment")]
  /\ UNCHANGED <<mainVars, flagVars, results, semaphore, wg, progressWg,
                 progressDone, wIndex, wPath, ghostVars, trackerVars>>

\* line 260, run on return: <-semaphore.
release(w) ==
  /\ wpc[w] = "release"
  /\ semaphore > 0
  /\ semaphore' = afterReceive(semaphore)
  /\ wpc' = [wpc EXCEPT ![w] = nextStep("release")]
  /\ UNCHANGED <<mainVars, flagVars, results, processed, wg, progressWg,
                 progressDone, wIndex, wPath, ghostVars, trackerVars>>

\* line 257, run last: wg.Done().
wgDone(w) ==
  /\ wpc[w] = "wgDone"
  /\ wg' = wg - 1
  /\ wpc' = [wpc EXCEPT ![w] = nextStep("wgDone")]
  /\ UNCHANGED <<mainVars, flagVars, results, semaphore, processed,
                 progressWg, progressDone, wIndex, wPath, ghostVars,
                 trackerVars>>

\* ----------------------------------------------------- progress goroutine
\* lines 242-245: a tick prints the counter it loads.
tick ==
  /\ tpc = "select"
  /\ progressLine' = [kind |-> "tick", p |-> processed, total |-> Len(files)]
  /\ processed' = afterLoad(processed)
  /\ UNCHANGED <<mainVars, flagVars, results, semaphore, wg, progressWg,
                 progressDone, workerVars, ghostVars, tpc, finalRenders>>

\* lines 246-248 and 236: on the closed channel the 100% line is printed and
\* the goroutine returns, which runs progressWg.Done().
final ==
  /\ tpc = "select"
  /\ progressDone
  /\ progressLine' = [kind |-> "final", p |-> Len(files), total |-> Len(files)]
  /\ finalRenders' = finalRenders + 1
  /\ progressWg' = progressWg - 1
  /\ tpc' = finalNext
  /\ UNCHANGED <<mainVars, flagVars, results, semaphore, processed, wg,
                 progressDone, workerVars, ghostVars>>

\* ------------------------------------------------------------------- Next
MainStep ==
  \/ ParseArgs
  \/ checkFFProbe
  \/ collectAudioFiles
  \/ processFiles
  \/ startProgress
  \/ dispatch
  \/ wgWait
  \/ closeProgressDone
  \/ progressWgWait
  \/ countResults
  \/ outputResults

WorkerStep(w) ==
  \/ acquire(w)
  \/ probe(w)
  \/ increment(w)
  \/ release(w)
  \/ wgDone(w)

Next ==
  \/ MainStep
  \/ \E w \in Workers : WorkerStep(w)
  \/ tick
  \/ final

Spec == Init /\ [][Next]_vars

\* The Go scheduler runs every runnable goroutine, and the select of the
\* progress goroutine takes the closed channel once it is the ready case.
FairSpec ==
  /\ Init /\ [][Next]_vars
  /\ WF_vars(MainStep)
  /\ \A w \in Workers : WF_vars(WorkerStep(w))
  /\ WF_vars(final)

\* outputResults on its own, lines 126 and 386-476: main is about to report
\* the results processFiles returned for a list of files whose probes came
\* back, of any length up to MaxResults.
AggFiles == UNION {[1..n -> {p \in Paths : ~World[p].hang}] : n \in 0..MaxResults}

AggInit ==
  /\ pc = "outputResults"
  /\ caller = "main"
  /\ ffprobe = "found"
  /\ concurrency = 1
  /\ quiet = TRUE
  /\ files \in AggFiles
  /\ maxConcurrency = 1
  /\ warned = FALSE
  /\ results = [i \in 1..Len(files) |-> analyzeFileWithFFProbe(files[i])]
  /\ semaphore = 0
  /\ processed = Len(files)
  /\ wg = 0
  /\ progressWg = 0
  /\ progressDone = TRUE
  /\ loopI = Len(files) + 1
  /\ wpc = [w \in Workers |-> "none"]
  /\ wIndex = [w \in Workers |-> 0]
  /\ wPath = [w \in Workers |-> Nil]
  /\ writeLog = <<>>
  /\ tpc = "none"
  /\ progressLine = [kind |-> "none"]
  /\ finalRenders = 0
  /\ summaryLog = [kind         |-> "counts",
                   successCount |-> successCount(results),
                   failCount    |-> Len(results) - successCount(results),
                   failedLogged |-> Len(results) - successCount(results) > 0]
  /\ output = [format |-> "none"]

AggSpec == AggInit /\ [][outputResults]_vars

\* ================================================================= claims
Total == Len(files)
Items == 1..Len(files)

\* processFiles has returned to its caller.
Returned == pc \in {"returned", "outputResults", "done", "fatal_output"}

\* wg.Wait() has returned.
Joined == pc \in {"closeProgressDone", "progressWgWait", "countResults"} \/ Returned

\* The workers that hold an admission permit, and those inside the probe.
Holding  == {w \in Workers : wpc[w] \in {"probe", "increment", "release"}}
InFlight == {w \in Workers : wpc[w] = "probe"}

\* The items whose probe fails, and those whose probe never returns.
Failing == {i \in Items : ~World[files[i]].hang /\ ~World[files[i]].audio}
Hanging == {i \in Items : World[files[i]].hang}

WritesTo(slot) == {k \in DOMAIN writeLog : writeLog[k].slot = slot}
Written(slot)  == WritesTo(slot) # {}

\* C1: when processFiles has returned, results has one entry per file and
\* entry i is the outcome of probing files[i], whatever order the workers
\* finished in.
C1_OrderPreservation ==
  Returned =>
    /\ Len(results) = Len(files)
    /\ \A i \in Items : results[i] = analyzeFileWithFFProbe(files[i])

\* A run of two different files has returned after the second file's worker
\* stored its outcome before the first one's.
C1_Witness ==
  /\ Returned
  /\ Total = 2
  /\ files[1] # files[2]
  /\ Len(writeLog) = 2
  /\ writeLog[1].worker = 2
  /\ results[1] # results[2]

\* C2: with an effective limit of at least 1, the workers that hold a permit,
\* and so the probes in flight, never number more than the limit, and the
\* channel holds exactly one element per permit held.
C2_ConcurrencyBound ==
  maxConcurrency >= 1 =>
    /\ Cardinality(Holding) <= maxConcurrency
    /\ Cardinality(InFlight) <= maxConcurrency
    /\ semaphore = Cardinality(Holding)

\* Every permit of a limit of 1 is taken by a probe in flight while another
\* worker waits for one.
C2_Witness ==
  /\ maxConcurrency = 1
  /\ Cardinality(InFlight) = 1
  /\ \E w \in Workers : wpc[w] = "acquire"

\* C3: every assignment to a slot is made by the worker of that item, no
\* slot is assigned twice, and no slot is unassigned when processFiles has
\* returned.
C3_WriteOnceComplete ==
  /\ \A k \in DOMAIN writeLog : writeLog[k].slot = writeLog[k].worker
  /\ \A i \in Workers : Cardinality(WritesTo(i)) <= 1
  /\ Returned => \A i \in Items : Cardinality(WritesTo(i)) = 1
  /\ Returned => \A i \in Items : results[i] # ZeroResult

\* Two items, both slots assigned, and processFiles has returned.
C3_Witness ==
  /\ Returned
  /\ Total = 2
  /\ Len(writeLog) = 2
  /\ results[1] # ZeroResult /\ results[2] # ZeroResult

\* C4: once wg.Wait() has returned (so when the counting loop reads results
\* and when processFiles returns) every worker has stored its outcome,
\* released its permit and exited: no permit is held.
C4_JoinBarrier ==
  Joined =>
    /\ \A i \in Items : Written(i) /\ wpc[i] = "exited"
    /\ Holding = {}
    /\ semaphore = 0
    /\ wg = 0

\* The counting loop is about to read the results of two items.
C4_Witness ==
  /\ pc = "countResults"
  /\ Total = 2
  /\ \A i \in Items : Written(i)

\* C5: from the call of processFiles with a limit of at least 1 and no probe
\* that hangs, with or without the progress display and for the empty list
\* too, processFiles returns under fair scheduling.
C5_Termination ==
  (pc = "processFiles" /\ concurrency >= 1 /\ Hanging = {}) ~> Returned

\* processFiles has returned from a run of two files through one permit with
\* the progress display on.
C5_Witness ==
  /\ Returned
  /\ Total = 2
  /\ maxConcurrency = 1
  /\ ~quiet
  /\ tpc = "exited"

\* The error description of a failing item.
ErrorOf(i) == "no audio stream"

\* C6: a slot, once assigned, holds an error exactly when its own item's
\* probe fails, whatever the other items do; after the return every item
\* outside the failing set F is a success, the counts of processFiles and of
\* outputText both give |F| failures, and successes + failures = len(files).
C6_Isolation ==
  /\ \A i \in Items : Written(i) =>
       IF i \in Failing
         THEN results[i].Error = ErrorOf(i) /\ results[i].Info = NilInfo
         ELSE results[i].Error = Nil /\ results[i].Info.FilePath = files[i]
  /\ Returned =>
       /\ summaryLog.failCount = Cardinality(Failing)
       /\ summaryLog.successCount + summaryLog.failCount = Total
  /\ (pc = "done" /\ output.format = "text") =>
       /\ output.failure = Cardinality(Failing)
       /\ output.success + output.failure = Total

\* A text report of two items, the first failing and the second succeeding.
C6_Witness ==
  /\ pc = "done"
  /\ output.format = "text"
  /\ Total = 2
  /\ Failing = {1}
  /\ output.success = 1
  /\ output.failure = 1

\* The workers that have passed their increment.
Counted == {w \in Workers : wpc[w] \in {"release", "wgDone", "exited"}}

\* C7: processed starts at 0, stays within 0..len(files), counts exactly the
\* workers that have passed line 265 (failed probes included), never goes
\* down, is len(files) once the join is over, and the values printed by
\* successive ticks never go down.
C7_ProgressCounter ==
  /\ processed = 0
  /\ [](0 <= processed /\ processed <= Total)
  /\ [](processed = Cardinality(Counted))
  /\ [](Joined => processed = Total)
  /\ [][processed' >= processed]_vars
  /\ [][(progressLine.kind = "tick" /\ progressLine'.kind = "tick")
          => progressLine'.p >= progressLine.p]_vars

\* The join is over for two items, one of them failing; the counter is 2 and
\* the last tick had read 1.
C7_Witness ==
  /\ pc = "closeProgressDone"
  /\ Total = 2
  /\ Cardinality(Failing) = 1
  /\ processed = 2
  /\ progressLine.kind = "tick"
  /\ progressLine.p = 1

\* C8: with the display on, the progress goroutine runs until progressDone is
\* closed; it is closed only after the join; the goroutine exits exactly when
\* it has printed the 100% line, which it prints once and which stays the
\* last line printed; processFiles returns only after the goroutine's exit.
C8_TrackerShutdown ==
  /\ (~quiet /\ pc \in {"dispatch", "wgWait", "closeProgressDone"})
       => tpc = "select"
  /\ tpc = "exited" => progressDone
  /\ progressDone => (Joined /\ \A i \in Items : wpc[i] = "exited")
  /\ finalRenders <= 1
  /\ (finalRenders = 1) <=> (tpc = "exited")
  /\ tpc = "exited" => progressLine.kind = "final"
  /\ (Returned /\ ~quiet) => tpc = "exited"
  /\ quiet => tpc = "none"

\* processFiles has returned from a run of two files with the display on, the
\* 100% line printed once.
C8_Witness ==
  /\ Returned
  /\ ~quiet
  /\ Total = 2
  /\ finalRenders = 1
  /\ progressLine.kind = "final"

\* A report states the counts, and carries the description of every failure.
StatesCounts(o) ==
  /\ {"success", "failure"} \subseteq DOMAIN o
  /\ o.failure = Cardinality(Failing)
  /\ o.success = Total - Cardinality(Failing)

CarriesErrors(o) ==
  /\ "entries" \in DOMAIN o
  /\ \A i \in Failing : o.entries[i] = [kind |-> "error", text |-> ErrorOf(i)]

\* The successful items' paths, in the order of the list.
RECURSIVE SuccessPaths(_)
SuccessPaths(fs) ==
  IF fs = <<>> THEN <<>>
  ELSE (IF World[Head(fs)].audio
          THEN <<Head(fs)>> ELSE <<>>) \o SuccessPaths(Tail(fs))

\* C9 as stated: in every format the report of a completed run states the
\* number of failures beside the number of successes and carries the error
\* description of every failed item.
C9_AsStated ==
  pc = "done" => (StatesCounts(output) /\ CarriesErrors(output))

\* C9: the text report of a completed run states the number of failures
\* beside the number of successes and carries the error description of every
\* failed item; the json report is the array of the successful items' records
\* in list order, without the failed items and without counts, and the number
\* of failures is then only in the log line of processFiles, written when it
\* is not zero.
C9_FailureReporting ==
  pc = "done" =>
    /\ output.format \in {"text", "json"}
    /\ output.format = "text" =>
         (StatesCounts(output) /\ CarriesErrors(output))
    /\ output.format = "json" =>
         /\ DOMAIN output = {"format", "records"}
         /\ Len(output.records) = Total - Cardinality(Failing)
         /\ [k \in DOMAIN output.records |-> output.records[k].FilePath]
              = SuccessPaths(files)
    /\ summaryLog.failCount = Cardinality(Failing)
    /\ summaryLog.failedLogged = (Cardinality(Failing) > 0)

\* A text report of a failed item followed by a successful one.
C9_Witness ==
  /\ pc = "done"
  /\ output.format = "text"
  /\ Total = 2
  /\ Failing = {1}
  /\ output.entries[1] = [kind |-> "error", text |-> "no audio stream"]
  /\ output.entries[2] = [kind |-> "file", text |-> files[2]]
  /\ output.failure = 1

\* C10: when one item's probe never returns, processFiles never returns; the
\* hung worker stays inside its probe, and so keeps its permit, from its
\* admission on; and with a limit of at least 2 every other item is admitted,
\* probed, stored and finished, leaving the hung worker's one permit held.
C10_HungProbe ==
  /\ [](Hanging # {} => ~Returned)
  /\ [][\A h \in Hanging : wpc[h] = "probe" => wpc'[h] = "probe"]_vars
  /\ (pc = "processFiles" /\ concurrency >= 2 /\ Cardinality(Hanging) = 1)
       ~> /\ \A i \in Items \ Hanging :
               /\ Written(i)
               /\ results[i] = analyzeFileWithFFProbe(files[i])
               /\ wpc[i] = "exited"
          /\ Holding = Hanging
          /\ semaphore = 1
          /\ pc = "wgWait"

\* Of two items under a limit of 2 the first hangs inside its probe and the
\* second has finished; main waits in wg.Wait().
C10_Witness ==
  /\ Total = 2
  /\ maxConcurrency = 2
  /\ Hanging = {1}
  /\ wpc[1] = "probe"
  /\ wpc[2] = "exited"
  /\ Written(2)
  /\ semaphore = 1
  /\ pc = "wgWait"

\* processFiles has been called, and its adjustment of the limit has run.
Entered == pc \notin {"main", "checkFFProbe", "collectAudioFiles", "exit_usage",
                      "fatal_ffprobe", "fatal_collect", "exit_nofiles"}
Adjusted == Entered /\ pc # "processFiles"

\* The workers that exist, and those that have been admitted.
Created  == {w \in Workers : wpc[w] # "none"}
Admitted == {w \in Workers : wpc[w] \notin {"none", "acquire"}}

\* The slots that hold an outcome.
Populated == {i \in DOMAIN results : results[i] # ZeroResult}

\* C11: a call of processFiles with the empty list creates no worker, takes
\* no permit, runs no probe, and returns the empty sequence.
C11_EmptyInput ==
  (Entered /\ Total = 0) =>
    /\ Created = {}
    /\ semaphore = 0
    /\ wg = 0
    /\ writeLog = <<>>
    /\ processed = 0
    /\ Adjusted => results = <<>>
    /\ Returned => (summaryLog.successCount = 0 /\ summaryLog.failCount = 0)

\* A direct call with the empty list and a limit of at least 1 has returned.
C11_Witness ==
  /\ caller = "direct"
  /\ pc = "returned"
  /\ concurrency >= 1
  /\ Total = 0
  /\ results = <<>>

\* The ceiling of the limit, and the smaller of two numbers.
Ceiling == 12 * NumCPU
Min(a, b) == IF a <= b THEN a ELSE b

\* C12: the limit used is min(requested, 12 * NumCPU); the warning is logged
\* exactly when the request exceeds the ceiling, and the run then goes on
\* with the ceiling as its limit; a request within the ceiling is unchanged.
C12_Clamping ==
  Adjusted =>
    /\ maxConcurrency = Min(concurrency, Ceiling)
    /\ warned = (concurrency > Ceiling)
    /\ concurrency <= Ceiling => maxConcurrency = concurrency
    /\ warned => (maxConcurrency = Ceiling /\ pc # "panic_makechan")

\* A run whose request was one above the ceiling has ended with its report.
C12_Witness ==
  /\ pc = "done"
  /\ concurrency = Ceiling + 1
  /\ warned
  /\ maxConcurrency = Ceiling
  /\ Total = 2

\* C13: with -q the progress goroutine never exists, nothing is printed by
\* it, progressWg stays 0, and from close(progressDone) on processFiles goes
\* through progressWg.Wait() and returns.
C13_ProgressDisabled ==
  /\ [](quiet => /\ tpc = "none"
                 /\ progressLine.kind = "none"
                 /\ finalRenders = 0
                 /\ progressWg = 0)
  /\ (quiet /\ pc = "closeProgressDone") ~> Returned

\* A quiet run of two files has returned; the channel is closed and nothing
\* was printed.
C13_Witness ==
  /\ quiet
  /\ Returned
  /\ Total = 2
  /\ progressDone
  /\ progressLine.kind = "none"

\* C14: when checkFFProbe fails the program ends there: no list is collected,
\* processFiles is not called, no worker and no probe exists, and no step
\* follows; main calls processFiles only with ffprobe found and a non-empty
\* collected list, and the other early exits of main are final too.
C14_SetupFailure ==
  /\ [](ffprobe = "missing" =>
          /\ pc = "fatal_ffprobe"
          /\ files = <<>> /\ results = <<>>
          /\ Created = {} /\ writeLog = <<>> /\ tpc = "none")
  /\ []((caller = "main" /\ Entered) => (ffprobe = "found" /\ Total > 0))
  /\ [][pc \notin {"fatal_ffprobe", "fatal_collect", "exit_nofiles",
                   "exit_usage"}]_vars

\* checkFFProbe has failed and the program has ended.
C14_Witness ==
  /\ pc = "fatal_ffprobe"
  /\ ffprobe = "missing"

\* The numbers of permits given back and of wg.Done() calls made so far.
ReleasedCount == Cardinality(Admitted) - semaphore
DoneCount     == Cardinality(Created) - wg

\* C15 as stated: the permit of an item is released before its increment, so
\* the increments made never outnumber the permits given back.
C15_AsStated ==
  Adjusted => processed <= ReleasedCount

\* C15: a worker stores its outcome, then increments the counter, then gives
\* its permit back, then calls wg.Done(): at any moment stores >= increments
\* >= permits given back >= Done calls, and a worker about to give its permit
\* back has been counted and still holds it.
C15_StepOrder ==
  Adjusted =>
    /\ Len(writeLog) >= processed
    /\ processed >= ReleasedCount
    /\ ReleasedCount >= DoneCount
    /\ \A w \in Workers : wpc[w] = "release" =>
         (semaphore >= 1 /\ processed >= 1 /\ Written(wIndex[w]))

\* The single worker of a run has been counted and still holds its permit.
C15_Witness ==
  /\ Total = 1
  /\ wpc[1] = "release"
  /\ processed = 1
  /\ semaphore = 1
  /\ Written(1)

\* What a worker needs to take its next step, in terms of the worker, the
\* channel and the world alone.
CanRun(w) ==
  \/ wpc[w] = "acquire" /\ semaphore < maxConcurrency
  \/ wpc[w] = "probe" /\ ~World[wPath[w]].hang
  \/ wpc[w] \in {"increment", "release", "wgDone"}

\* A step of the progress goroutine: its position or its output changes
\* while main stays where it is.
ProgressStep ==
  /\ pc' = pc
  /\ <<tpc, progressLine, finalRenders>>' # <<tpc, progressLine, finalRenders>>

\* C16: a step of the progress goroutine changes neither results, processed,
\* the channel, wg nor any worker; whether a worker can step does not depend
\* on the progress goroutine; and the returned results are the probes'
\* outcomes with the display on as with it off.
C16_Observational ==
  /\ [][ProgressStep => UNCHANGED <<results, processed, semaphore, wg, wpc,
                                    wIndex, wPath, writeLog>>]_vars
  /\ [](\A w \in Workers : (ENABLED WorkerStep(w)) <=> CanRun(w))
  /\ [](\A q \in BOOLEAN : (Returned /\ quiet = q) =>
          results = [i \in Items |-> analyzeFileWithFFProbe(files[i])])

\* A tick has printed 1 of 2 while the second worker is inside its probe.
C16_Witness ==
  /\ ~quiet
  /\ Total = 2
  /\ progressLine.kind = "tick"
  /\ progressLine.p = 1
  /\ processed = 1
  /\ wpc[2] = "probe"

\* The entries of results that count as successful, and the sum of a field
\* of their Info, taken in no particular order.
Successful == {i \in DOMAIN results :
                 results[i].Error = Nil /\ results[i].Info # NilInfo}

RECURSIVE SumDurationOver(_)
SumDurationOver(S) ==
  IF S = {} THEN 0
  ELSE LET i == CHOOSE x \in S : TRUE
       IN results[i].Info.DurationSeconds + SumDurationOver(S \ {i})

RECURSIVE SumSizeOver(_)
SumSizeOver(S) ==
  IF S = {} THEN 0
  ELSE LET i == CHOOSE x \in S : TRUE
       IN results[i].Info.FileSize + SumSizeOver(S \ {i})

\* The four summary values of a text report.
SummaryOf(o) == <<o.success, o.failure, o.totalDuration, o.totalSize>>

C18_DispatchVsAdmission ==
  /\ pc = "dispatch" => ENABLED dispatch
  /\ \A w \in Workers :
       /\ wpc[w] \in {"increment", "release", "wgDone"} => ENABLED WorkerStep(w)
       /\ (wpc[w] = "acquire" /\ semaphore < maxConcurrency)
            => ENABLED WorkerStep(w)
       /\ (wpc[w] = "probe" /\ ~World[wPath[w]].hang) => ENABLED WorkerStep(w)
  /\ Cardinality(Created) <= Total
  /\ maxConcurrency >= 0 => Cardinality(Admitted \ Counted) <= maxConcurrency

\* Both workers of a run with one permit exist while the loop is still
\* running: one holds the permit, the other was created after it was taken.
C18_Witness ==
  /\ maxConcurrency = 1
  /\ Total = 2
  /\ semaphore = 1
  /\ wpc[1] = "probe"
  /\ wpc[2] = "acquire"
  /\ pc = "dispatch"

\* C19: the counter never exceeds the number of slots that hold an outcome,
\* so a tick that printed k saw at most as many as are populated.
C19_CounterBehindResults ==
  /\ processed <= Cardinality(Populated)
  /\ progressLine.kind = "tick" => progressLine.p <= Cardinality(Populated)

\* Both slots are populated while the counter, and the last tick, are at 1.
C19_Witness ==
  /\ Cardinality(Populated) = 2
  /\ processed = 1
  /\ progressLine.kind = "tick"
  /\ progressLine.p = 1

\* C20: a limit of 0 is not rejected; with a non-empty list no worker gets a
\* permit, no probe runs, no slot is assigned, the counter stays 0, and
\* processFiles does not return.
C20_ZeroLimit ==
  (Adjusted /\ concurrency = 0 /\ Total > 0) =>
    /\ maxConcurrency = 0
    /\ pc \in {"startProgress", "dispatch", "wgWait"}
    /\ \A w \in Workers : wpc[w] \in {"none", "acquire"}
    /\ semaphore = 0
    /\ writeLog = <<>>
    /\ Populated = {}
    /\ processed = 0
    /\ ~Returned

\* With a limit of 0 both workers wait for a permit and main waits for them.
C20_Witness ==
  /\ concurrency = 0
  /\ maxConcurrency = 0
  /\ Total = 2
  /\ \A i \in Items : wpc[i] = "acquire"
  /\ pc = "wgWait"
  /\ wg = 2

=============================================================================
